---- MODULE Spec2Model ----
(***************************************************************************)
(* A model of the photo-booth service of src/app.py: the compositor        *)
(* geometry (fit_person_to_frame), the lazily created segmentation handle  *)
(* (get_session), the /process pipeline and the admin surface working on   *)
(* the two buckets (uploads, outputs).                                     *)
(***************************************************************************)
EXTENDS Integers, Sequences, FiniteSets, TLC

VARIABLES
    person,         \* the subject cutout handed to fit_person_to_frame
    frame,          \* the frame image handed to fit_person_to_frame
    fit,            \* the outcome of fit_person_to_frame, or NotRun
    rembg_session,  \* the process-wide segmentation handle, or None
    created,        \* how many times new_session has returned a handle
    uploads,        \* uploads bucket: stored name -> the request that wrote it
    outputs,        \* outputs bucket: stored name -> the request that wrote it
    frames,         \* the selectors s for which frames/frame_<s>.png exists
    req,            \* per request: the position in process_image, the locals,
                    \* the stages entered and the response
    nreq,           \* the number of /process requests received so far
    session,        \* per admin client: the keys of its Flask session
    last,           \* the latest admin call and its response
    ncalls          \* the number of admin calls made so far

fitVars == <<person, frame, fit>>
procVars == <<rembg_session, created, uploads, outputs, frames, req, nreq>>
adminVars == <<session, last, ncalls>>
vars == <<person, frame, fit, rembg_session, created, uploads, outputs, frames,
          req, nreq, session, last, ncalls>>

\* rembg_session = None
NoHandle == 0

\* a bucket without files
EmptyBucket == [n \in {} |-> 0]

\* no response yet, no request data
NoBody == [kind |-> "none"]
NoData == [kind |-> "none"]

\* no admin call yet
NoCall == [op |-> "none", client |-> 0, data |-> NoData, status |-> 0,
           body |-> NoBody]

\* fit_person_to_frame has not been applied yet
NotRun == [run |-> FALSE]

\* getbbox() of a fully transparent image
NoBBox == <<>>

(***************************************************************************)
(* Binary64 arithmetic.  Python evaluates person_width / person_height,    *)
(* new_height * person_ratio and new_width / person_ratio in IEEE-754      *)
(* double precision, round-to-nearest-even.  A significand has 53 bits,    *)
(* which is more than an integer of the model checker holds, so naturals   *)
(* are kept as Limbs digits of base Base, least significant first.         *)
(***************************************************************************)
Base == 65536
Limbs == 5

Big(n) == <<n % Base, (n \div Base) % Base, 0, 0, 0>>

BigToInt(a) == a[1] + a[2] * Base

\* digits i.. of a * n + carry
RECURSIVE MulFrom(_, _, _, _)
MulFrom(a, n, i, carry) ==
    IF i > Limbs THEN <<>>
    ELSE <<(a[i] * n + carry) % Base>>
         \o MulFrom(a, n, i + 1, (a[i] * n + carry) \div Base)

BigMulSmall(a, n) == MulFrom(a, n, 1, 0)

BigDouble(a) == BigMulSmall(a, 2)

\* digits i.. of a + carry
RECURSIVE AddFrom(_, _, _)
AddFrom(a, i, carry) ==
    IF i > Limbs THEN <<>>
    ELSE <<(a[i] + carry) % Base>> \o AddFrom(a, i + 1, (a[i] + carry) \div Base)

BigInc(a) == AddFrom(a, 1, 1)

\* digits i.. of a - b - borrow, for a >= b
RECURSIVE SubFrom(_, _, _, _)
SubFrom(a, b, i, borrow) ==
    IF i > Limbs THEN <<>>
    ELSE <<(a[i] - b[i] - borrow + Base) % Base>>
         \o SubFrom(a, b, i + 1, IF a[i] - b[i] - borrow < 0 THEN 1 ELSE 0)

BigSub(a, b) == SubFrom(a, b, 1, 0)

RECURSIVE CmpFrom(_, _, _)
CmpFrom(a, b, i) ==
    IF i = 0 THEN 0
    ELSE IF a[i] > b[i] THEN 1
    ELSE IF a[i] < b[i] THEN -1
    ELSE CmpFrom(a, b, i - 1)

\* -1, 0 or 1 as a < b, a = b or a > b
BigCmp(a, b) == CmpFrom(a, b, Limbs)

\* digits i.. of a \div 2
RECURSIVE HalfFrom(_, _)
HalfFrom(a, i) ==
    IF i > Limbs THEN <<>>
    ELSE <<(a[i] \div 2)
           + (IF i < Limbs THEN (a[i + 1] % 2) * (Base \div 2) ELSE 0)>>
         \o HalfFrom(a, i + 1)

BigHalf(a) == HalfFrom(a, 1)

BigOdd(a) == a[1] % 2 = 1

BigZero == <<0, 0, 0, 0, 0>>

\* 2^52 and 2^53: the bounds of a normalised significand
Two52 == <<0, 0, 0, 16, 0>>
Two53 == <<0, 0, 0, 32, 0>>

\* F applied to the value of v, v being evaluated once
With(v, F(_)) == CHOOSE res \in {F(t) : t \in {v}} : TRUE

\* A positive double is m * 2^e with Two52 <= m < Two53.
\* A rounded-up significand that reaches 2^53 is renormalised.
Renorm(m, e) ==
    With(m, LAMBDA mv : IF BigCmp(mv, Two53) = 0 THEN [m |-> Two52, e |-> e + 1]
                        ELSE [m |-> mv, e |-> e])

\* a shifted right (k halvings) and left (k doublings); the work is split
\* in halves so that the evaluation nests only logarithmically deep
RECURSIVE BigShr(_, _)
BigShr(a, k) ==
    IF k = 0 THEN a
    ELSE IF k = 1 THEN BigHalf(a)
    ELSE With(BigShr(a, k \div 2), LAMBDA h : BigShr(h, k - k \div 2))

RECURSIVE BigShl(_, _)
BigShl(a, k) ==
    IF k = 0 THEN a
    ELSE IF k = 1 THEN BigDouble(a)
    ELSE With(BigShl(a, k \div 2), LAMBDA h : BigShl(h, k - k \div 2))

\* the number of bits of a digit, and of a natural
RECURSIVE DigitBits(_)
DigitBits(n) == IF n = 0 THEN 0 ELSE 1 + DigitBits(n \div 2)

RECURSIVE BitsFrom(_, _)
BitsFrom(a, i) ==
    IF i = 0 THEN 0
    ELSE IF a[i] # 0 THEN 16 * (i - 1) + DigitBits(a[i])
    ELSE BitsFrom(a, i - 1)

BitLength(a) == BitsFrom(a, Limbs)

\* Scale a / b by powers of two until b <= a < 2b: (a / b) * 2^x is kept.
NormDiv(a, b, x) ==
    With(BitLength(a) - BitLength(b), LAMBDA k :
         With(IF k < 0 THEN BigShl(a, 0 - k) ELSE a, LAMBDA a1 :
              With(IF k > 0 THEN BigShl(b, k) ELSE b, LAMBDA b1 :
                   IF BigCmp(a1, b1) < 0
                   THEN [a |-> BigDouble(a1), b |-> b1, x |-> x + k - 1]
                   ELSE [a |-> a1, b |-> b1, x |-> x + k])))

\* one step of long division: the next quotient bit of r / b
DivStep(q, r, b) ==
    With(BigDouble(r), LAMBDA r2 :
         With(BigDouble(q), LAMBDA q2 :
              IF BigCmp(r2, b) >= 0
              THEN [q |-> BigInc(q2), r |-> BigSub(r2, b)]
              ELSE [q |-> q2, r |-> r2]))

\* n further quotient bits of r / b
RECURSIVE DivBits(_, _, _, _)
DivBits(q, r, b, n) ==
    IF n = 0 THEN [q |-> q, r |-> r]
    ELSE IF n = 1 THEN DivStep(q, r, b)
    ELSE With(DivBits(q, r, b, n \div 2),
              LAMBDA d : DivBits(d.q, d.r, b, n - n \div 2))

\* The double nearest to (a / b) * 2^x, ties to even.
FloatDiv(a, b, x) ==
    With(NormDiv(a, b, x), LAMBDA n :
         With(DivBits(Big(1), BigSub(n.a, n.b), n.b, 52), LAMBDA d :
              With(BigCmp(BigDouble(d.r), n.b), LAMBDA c :
                   Renorm(IF c > 0 \/ (c = 0 /\ BigOdd(d.q))
                          THEN BigInc(d.q) ELSE d.q,
                          n.x - 52))))

\* The double nearest to p * 2^e, ties to even, for p >= 2^52: the low
\* bits beyond the 53rd are dropped; guard is the first of them, sticky
\* tells whether any later one is set.
RoundBig(p, e) ==
    With(BitLength(p) - 53, LAMBDA s :
         IF s <= 0 THEN [m |-> p, e |-> e]
         ELSE With(BigShr(p, s - 1), LAMBDA h :
                   With(BigCmp(BigShl(h, s - 1), p) # 0, LAMBDA sticky :
                        With(BigHalf(h), LAMBDA m :
                             Renorm(IF BigOdd(h) /\ (sticky \/ BigOdd(m))
                                    THEN BigInc(m) ELSE m,
                                    e + s)))))

\* int * float, the int being exactly representable
FloatMulInt(n, f) ==
    With(f, LAMBDA fv :
         With(BigMulSmall(fv.m, n), LAMBDA p : RoundBig(p, fv.e)))

\* int / float
IntDivFloat(n, f) == With(f, LAMBDA fv : FloatDiv(Big(n), fv.m, 0 - fv.e))

\* int / int (true division)
IntDivInt(a, b) == FloatDiv(Big(a), Big(b), 0)

FloatGT(f, g) == f.e > g.e \/ (f.e = g.e /\ BigCmp(f.m, g.m) > 0)

\* int(f) for a positive double below 2^31: truncation
FloatToInt(f) ==
    With(f, LAMBDA fv :
         IF fv.e >= 0 THEN BigToInt(BigShl(fv.m, fv.e))
         ELSE IF 0 - fv.e >= 53 THEN 0
         ELSE BigToInt(BigShr(fv.m, 0 - fv.e)))

(***************************************************************************)
(* fit_person_to_frame.  An image is its size and, for a cutout, the       *)
(* bounding box of its non-transparent pixels as getbbox reports it:       *)
(* NoBBox for a fully transparent image, else <<left, upper, right,        *)
(* lower>>.                                                                *)
(***************************************************************************)
target_width == 1024
target_height == 1536

\* scale_factor = 0.85: the double 0x1.B333333333333p-1
scale_factor == [m |-> <<13107, 13107, 13107, 27, 0>>, e |-> -53]

\* Image.crop(bbox).size
CropSize(bbox) == <<bbox[3] - bbox[1], bbox[4] - bbox[2]>>

\* the size of the subject after the optional crop to its bounding box
PersonSize(img) == IF img.bbox # NoBBox THEN CropSize(img.bbox) ELSE img.size

\* <<new_width, new_height>> of the resized subject
NewSize(person_width, person_height) ==
    With(IntDivInt(person_width, person_height), LAMBDA person_ratio :
         IF FloatGT(person_ratio, IntDivInt(target_width, target_height))
         THEN With(FloatToInt(FloatMulInt(target_width, scale_factor)),
                   LAMBDA new_width :
                       <<new_width, FloatToInt(IntDivFloat(new_width, person_ratio))>>)
         ELSE With(FloatToInt(FloatMulInt(target_height, scale_factor)),
                   LAMBDA new_height :
                       <<FloatToInt(FloatMulInt(new_height, person_ratio)), new_height>>))

XOffset(new_width) == (target_width - new_width) \div 2

\* the subject centred vertically instead of standing on the bottom edge
YOffsetCentred(new_height) == (target_height - new_height) \div 2

YOffset(new_height) == target_height - new_height

\* Image.resize raises ValueError unless both sides are at least 1
ResizeOk(size) == size[1] >= 1 /\ size[2] >= 1

fit_person_to_frame(person_image, frame_image) ==
    LET result_size == IF frame_image.size # <<target_width, target_height>>
                       THEN <<target_width, target_height>>
                       ELSE frame_image.size
        ps == PersonSize(person_image)
        ns == NewSize(ps[1], ps[2])
    IN  IF ResizeOk(ns)
        THEN [run |-> TRUE, ok |-> TRUE, size |-> result_size,
              new_width |-> ns[1], new_height |-> ns[2],
              x_offset |-> XOffset(ns[1]), y_offset |-> YOffset(ns[2])]
        ELSE [run |-> TRUE, ok |-> FALSE, error |-> "ValueError",
              new_width |-> ns[1], new_height |-> ns[2]]

(***************************************************************************)
(* The compositor on its own: a cutout and a frame are chosen, then        *)
(* fit_person_to_frame is applied to them.                                 *)
(***************************************************************************)
max_dim == 2000
SmallSide == 3
SideStep == 261

\* the side lengths tried: the smallest ones and every SideStep-th one
Sides == {n \in 1..max_dim : n <= SmallSide \/ n % SideStep = 0}

\* the bounding boxes tried for a w x h cutout: none (fully transparent),
\* the whole image, and boxes with a transparent left and/or upper margin
BBoxes(w, h) ==
    {NoBBox} \cup {<<l, t, w, h>> : l \in {0, w \div 2}, t \in {0, h \div 2}}

Cutouts == UNION {{[size |-> <<w, h>>, bbox |-> b] : b \in BBoxes(w, h)} :
                  <<w, h>> \in Sides \X Sides}

FrameImages == {[size |-> <<target_width, target_height>>],
                [size |-> <<800, 600>>]}

\* no request, empty buckets and frames folder
ProcIdle ==
    /\ rembg_session = NoHandle
    /\ created = 0
    /\ uploads = EmptyBucket
    /\ outputs = EmptyBucket
    /\ frames = {}
    /\ req = <<>>
    /\ nreq = 0

\* no admin client
AdminIdle ==
    /\ session = <<>>
    /\ last = NoCall
    /\ ncalls = 0

\* no cutout under composition
FitIdle ==
    /\ person = [size |-> <<1, 1>>, bbox |-> NoBBox]
    /\ frame = [size |-> <<target_width, target_height>>]
    /\ fit = NotRun

InitFit ==
    /\ person \in Cutouts
    /\ frame \in FrameImages
    /\ fit = NotRun
    /\ ProcIdle
    /\ AdminIdle

FitPerson ==
    /\ fit = NotRun
    /\ fit' = fit_person_to_frame(person, frame)
    /\ UNCHANGED <<person, frame>>
    /\ UNCHANGED procVars
    /\ UNCHANGED adminVars

NextFit == FitPerson

SpecFit == InitFit /\ [][NextFit]_vars

(***************************************************************************)
(* The /process pipeline.  Each request is handled by a thread of its own  *)
(* that runs process_image; the steps are the places where it touches      *)
(* shared state (the buckets, the segmentation handle) or where a library  *)
(* call may raise.  Requests are numbered in the order of their arrival.   *)
(***************************************************************************)
MaxRequests == 2
NumIds == 2
MaxSelector == 7

Requests == 1..MaxRequests

\* the values str(uuid.uuid4())[:8] may take
Ids == 1..NumIds

\* The values are named in the order in which they are drawn first: the
\* next one drawn is one drawn before or the first one not drawn yet.
DrawnIds == {req[i].unique_id : i \in 1..nreq} \ {0}

NextIds == {u \in Ids : u <= Cardinality(DrawnIds) + 1}

NoName == <<>>
NoPath == <<>>

\* request.files: no 'person_image' field, or the uploaded file's name as
\* its dot-separated parts ('' is <<"">>)
NoFile == <<>>
UploadFiles == {NoFile, <<"">>, <<"notes", "txt">>, <<"a b", "JPG">>}

\* request.form: no 'image_set_background' field, or its value
NoField == <<>>
Forms == {NoField, <<MaxSelector>>}

\* the contents the frames folder may have
FrameFolders == {{}, 1..6, 1..MaxSelector}

ALLOWED_EXTENSIONS == {"png", "jpg", "jpeg"}

\* str.lower()
Lower(str) == CASE str = "JPG" -> "jpg"
                [] str = "PNG" -> "png"
                [] str = "JPEG" -> "jpeg"
                [] OTHER -> str

\* '.' in filename and filename.rsplit('.', 1)[1].lower() in ALLOWED_EXTENSIONS
allowed_file(filename) ==
    /\ Len(filename) > 1
    /\ Lower(filename[Len(filename)]) \in ALLOWED_EXTENSIONS

\* werkzeug's secure_filename on one part of a name: whitespace becomes '_'
SecurePart(str) == CASE str = "a b" -> "a_b"
                     [] OTHER -> str

\* secure_filename(f"{unique_id}_{person_file.filename}")
secure_filename(unique_id, filename) ==
    [id |-> unique_id,
     name |-> [i \in 1..Len(filename) |-> SecurePart(filename[i])]]

\* f"{unique_id}_output.png"
output_filename(unique_id) == [id |-> unique_id, name |-> <<"output", "png">>]

\* request.form.get('image_set_background', '1')
FormGet(form) == IF form = NoField THEN 1 ELSE form[1]

\* a file written at path name: created, or overwritten if it is there
WriteFile(bucket, name, data) ==
    [n \in DOMAIN bucket \cup {name} |-> IF n = name THEN data ELSE bucket[n]]

\* the cleanup of the upload that the finally clause has commented out
FinallyCleanup(bucket, input_path) ==
    [n \in DOMAIN bucket \ {input_path} |-> bucket[n]]

\* the finally clause of process_image: the cleanup of the upload is
\* commented out, nothing is done
Finally(bucket, input_path) == bucket

IdleReq == [pc |-> "idle", rid |-> 0, bg_choice |-> 0, unique_id |-> 0,
            filename |-> NoName, stored |-> FALSE, handle |-> NoHandle,
            frame_used |-> 0, ran |-> <<>>, failed |-> "",
            status |-> 0, body |-> NoBody]

\* jsonify({'error': message}), status
ErrorBody(message) == [kind |-> "error", error |-> message]

\* the except clause: jsonify({'error': str(e), 'details': ...}), 500
ExceptBody(e) ==
    [kind |-> "error", error |-> e, details |-> "Check app_debug.log on server"]

\* str(e) of the exception a failing call raises, with the path it names
Exc(type, path) == [exc |-> type, path |-> path]

\* the request w returns: the finally clause runs, the response
\* is sent
Respond(w, r, status, body, ups) ==
    /\ req' = [req EXCEPT ![w] = [r EXCEPT !.pc = "done", !.status = status,
                                           !.body = body]]
    /\ uploads' = Finally(ups, r.filename)

\* the stage the request r is in fails
Failed(r) == [r EXCEPT !.failed = r.ran[Len(r.ran)]]

\* an exception e reaches the except clause of process_image
Raise(w, r, e, ups) ==
    Respond(w, Failed(r), 500, ExceptBody(e), ups)

\* the stage named is entered by the request r
Ran(r, stage) == [r EXCEPT !.ran = Append(@, stage)]

InitProcess ==
    /\ FitIdle
    /\ rembg_session = NoHandle
    /\ created = 0
    /\ uploads = EmptyBucket
    /\ outputs = EmptyBucket
    /\ frames \in FrameFolders
    /\ req = [w \in Requests |-> IdleReq]
    /\ nreq = 0
    /\ AdminIdle

\* lines 152-160: the request is refused
RejectUpload(w, file) ==
    /\ req[w].pc = "idle"
    /\ w = nreq + 1
    /\ nreq' = nreq + 1
    /\ LET r == [IdleReq EXCEPT !.rid = w]
       IN  \/ /\ file = NoFile
              /\ Respond(w, r, 400, ErrorBody("No image file provided"), uploads)
           \/ /\ file = <<"">>
              /\ Respond(w, r, 400, ErrorBody("No selected file"), uploads)
           \/ /\ file # NoFile /\ file # <<"">> /\ ~allowed_file(file)
              /\ Respond(w, r, 400,
                         ErrorBody("Invalid file type. Use JPG or PNG."), uploads)
    /\ UNCHANGED <<rembg_session, created, outputs, frames>>
    /\ UNCHANGED fitVars
    /\ UNCHANGED adminVars

\* lines 152-168: the request is accepted and its upload is saved
SaveUpload(w, file, uid) ==
    /\ req[w].pc = "idle"
    /\ w = nreq + 1
    /\ file # NoFile /\ file # <<"">> /\ allowed_file(file)
    /\ uid \in NextIds
    /\ nreq' = nreq + 1
    /\ LET r == Ran([IdleReq EXCEPT !.rid = w,
                                    !.unique_id = uid,
                                    !.filename = secure_filename(uid, file)],
                    "upload")
       IN  \/ /\ req' = [req EXCEPT ![w] = [r EXCEPT !.pc = "open",
                                                     !.stored = TRUE]]
              /\ uploads' = WriteFile(uploads, r.filename, r.rid)
           \/ Raise(w, r, Exc("OSError", <<"uploads", r.filename>>), uploads)
    /\ UNCHANGED <<rembg_session, created, outputs, frames>>
    /\ UNCHANGED fitVars
    /\ UNCHANGED adminVars

\* a step of the request w that touches neither bucket nor the handle
LocalStep(w, r) ==
    /\ req' = [req EXCEPT ![w] = r]
    /\ UNCHANGED uploads

\* lines 72-84 of remove_background: the upload is opened and re-encoded
OpenUpload(w) ==
    /\ req[w].pc = "open"
    /\ LET r == Ran(req[w], "segment")
       IN  \/ LocalStep(w, [r EXCEPT !.pc = "get_session"])
           \/ Raise(w, r, Exc("UnidentifiedImageError",
                              <<"uploads", r.filename>>), uploads)
    /\ UNCHANGED <<rembg_session, created, outputs, frames, nreq>>
    /\ UNCHANGED fitVars
    /\ UNCHANGED adminVars

\* get_session, line 53: if rembg_session is None
GetSessionCheck(w) ==
    /\ req[w].pc = "get_session"
    /\ LocalStep(w, [req[w] EXCEPT !.pc = IF rembg_session = NoHandle
                                          THEN "new_session"
                                          ELSE "session_return"])
    /\ UNCHANGED <<rembg_session, created, outputs, frames, nreq>>
    /\ UNCHANGED fitVars
    /\ UNCHANGED adminVars

\* get_session, lines 54-61: rembg_session = new_session("u2netp"), or
\* new_session raises, which is logged and leaves rembg_session as it is
NewSession(w) ==
    /\ req[w].pc = "new_session"
    /\ \/ /\ created' = created + 1
          /\ rembg_session' = created + 1
          /\ req' = [req EXCEPT ![w].pc = "session_return"]
       \/ /\ req' = [req EXCEPT ![w].pc = "session_return"]
          /\ UNCHANGED <<rembg_session, created>>
    /\ UNCHANGED <<uploads, outputs, frames, nreq>>
    /\ UNCHANGED fitVars
    /\ UNCHANGED adminVars

\* get_session, line 62: return rembg_session
SessionReturn(w) ==
    /\ req[w].pc = "session_return"
    /\ LocalStep(w, [req[w] EXCEPT !.pc = "remove", !.handle = rembg_session])
    /\ UNCHANGED <<rembg_session, created, outputs, frames, nreq>>
    /\ UNCHANGED fitVars
    /\ UNCHANGED adminVars

\* lines 87-96: remove(input_data, session=...) and the decoding of its
\* result; the handle passed as argument is out of scope afterwards
Remove(w) ==
    /\ req[w].pc = "remove"
    /\ LET r == [req[w] EXCEPT !.handle = NoHandle]
       IN  \/ LocalStep(w, [r EXCEPT !.pc = "frame"])
           \/ Raise(w, r, Exc("SegmentationError", NoPath), uploads)
    /\ UNCHANGED <<rembg_session, created, outputs, frames, nreq>>
    /\ UNCHANGED fitVars
    /\ UNCHANGED adminVars

\* the fallback taken to be the last frame of the folder instead of frame 1
frame_path_last(bg_choice, folder) ==
    IF bg_choice \in folder THEN bg_choice
    ELSE IF folder = {} THEN 1
    ELSE CHOOSE f \in folder : \A g \in folder : f >= g

\* lines 174-177: the selector of the frame file that is used
frame_path(bg_choice, folder) == IF bg_choice \in folder THEN bg_choice ELSE 1

\* lines 162, 174-182: the frame is resolved and opened.  The selector is
\* a field of the request's form, which no step before this one uses.
ResolveFrame(w, form) ==
    /\ req[w].pc = "frame"
    /\ LET r == Ran([req[w] EXCEPT !.bg_choice = FormGet(form)], "frame")
           path == frame_path(r.bg_choice, frames)
       IN  IF path \notin frames
           THEN Respond(w, Failed(r), 404,
                        ErrorBody("Background frame not found on server"),
                        uploads)
           ELSE \/ LocalStep(w, [r EXCEPT !.pc = "compose", !.frame_used = path])
                \/ Raise(w, r, Exc("UnidentifiedImageError", <<"frames", path>>),
                         uploads)
    /\ UNCHANGED <<rembg_session, created, outputs, frames, nreq>>
    /\ UNCHANGED fitVars
    /\ UNCHANGED adminVars

\* line 185: fit_person_to_frame returns, or raises the resize error
Compose(w) ==
    /\ req[w].pc = "compose"
    /\ LET r == Ran(req[w], "compose")
       IN  \/ LocalStep(w, [r EXCEPT !.pc = "qr"])
           \/ Raise(w, r, Exc("ValueError", NoPath), uploads)
    /\ UNCHANGED <<rembg_session, created, outputs, frames, nreq>>
    /\ UNCHANGED fitVars
    /\ UNCHANGED adminVars

\* lines 188-195: the QR code is generated and pasted
AddQR(w) ==
    /\ req[w].pc = "qr"
    /\ LET r == Ran(req[w], "qr")
       IN  \/ LocalStep(w, [r EXCEPT !.pc = "save"])
           \/ Raise(w, r, Exc("DataOverflowError", NoPath), uploads)
    /\ UNCHANGED <<rembg_session, created, outputs, frames, nreq>>
    /\ UNCHANGED fitVars
    /\ UNCHANGED adminVars

\* jsonify({'success': True, 'output_file': ..., 'download_url': ...})
SuccessBody(name) == [kind |-> "success", output_file |-> name]

\* lines 197-209: the composite is flattened and saved, the request answered.
\* A save that raises leaves no file behind: Image.save removes the file
\* it created when the encoder fails.
SaveOutput(w) ==
    /\ req[w].pc = "save"
    /\ LET r == Ran(req[w], "save")
           name == output_filename(r.unique_id)
       IN  \/ /\ outputs' = WriteFile(outputs, name, r.rid)
              /\ Respond(w, r, 200, SuccessBody(name), uploads)
           \/ /\ Raise(w, r, Exc("OSError", <<"outputs", name>>), uploads)
              /\ outputs' = outputs
    /\ UNCHANGED <<rembg_session, created, frames, nreq>>
    /\ UNCHANGED fitVars
    /\ UNCHANGED adminVars

NextProcess ==
    \E w \in Requests :
        \/ \E file \in UploadFiles : RejectUpload(w, file)
        \/ \E file \in UploadFiles, uid \in Ids : SaveUpload(w, file, uid)
        \/ OpenUpload(w)
        \/ GetSessionCheck(w)
        \/ NewSession(w)
        \/ SessionReturn(w)
        \/ Remove(w)
        \/ \E form \in Forms : ResolveFrame(w, form)
        \/ Compose(w)
        \/ AddQR(w)
        \/ SaveOutput(w)

SpecProcess == InitProcess /\ [][NextProcess]_vars

(***************************************************************************)
(* The admin surface.  Each client holds its own Flask session; the        *)
(* buckets start with the files earlier requests have left in them.  A     *)
(* file name sent by a client is the sequence of its '/'-separated         *)
(* components; a component is a stored name, or one of "", "." and "..".   *)
(***************************************************************************)
NumClients == 2
MaxCalls == 3
MaxList == 2

Clients == 1..NumClients

EmptyName == [id |-> 0, name |-> <<"">>]
Dot == [id |-> 0, name |-> <<"", "">>]
DotDot == [id |-> 0, name |-> <<"", "", "">>]

UploadNames == {secure_filename(i, <<"a b", "JPG">>) : i \in Ids}
OutputNames == {output_filename(i) : i \in Ids}

\* the file names a client sends: plain, with a leading "../", with a
\* trailing "/"
RawNames == <<<<secure_filename(1, <<"a b", "JPG">>)>>,
              <<DotDot, output_filename(1)>>,
              <<output_filename(NumIds), EmptyName>>>>

\* the sets of files os.remove may be unable to remove during one call
FaultySets == {{}, {secure_filename(1, <<"a b", "JPG">>)}}

\* the lists of at most n of the names k.. of RawNames, a name possibly
\* repeated, the names in the order of RawNames
RECURSIVE ListsFrom(_, _)
ListsFrom(k, n) ==
    IF n = 0 THEN {<<>>}
    ELSE {<<>>} \cup UNION {{<<RawNames[i]>> \o t : t \in ListsFrom(i, n - 1)} :
                            i \in k..Len(RawNames)}

FilenameLists == ListsFrom(1, MaxList)

\* request.json of a bulk call
BulkData(filenames, category) == [filenames |-> filenames, category |-> category]

\* the bodies a client sends with a bulk call: a list of names for one of
\* the two buckets, no name at all, or a category that is none of them
Bodies ==
    {BulkData(f, c) : f \in FilenameLists \ {<<>>}, c \in {"outputs", "uploads"}}
    \cup {BulkData(<<>>, "outputs"), BulkData(<<RawNames[1]>>, "frames")}

Credentials == {[email |-> "admin@clearmen.xri", password |-> "ADMINclear"],
                [email |-> "admin@clearmen.xri", password |-> "admin"],
                [email |-> "guest@clearmen.xri", password |-> "ADMINclear"]}

\* the files a bucket may hold at the start: those the first k requests
\* have written, the i-th request having used the id i, so that the
\* request number orders the modification times
BucketsOf(names) ==
    {[n \in {m \in names : m.id <= k} |-> n.id] : k \in 0..NumIds}

\* the check of the session left out
AuthorizedAnyone(sess) == TRUE

\* flask_session.get('admin_logged_in')
Authorized(sess) == "admin_logged_in" \in sess

\* os.path.basename(filename)
basename(filename) == filename[Len(filename)]

\* os.path.join(folder, name) names the folder itself or its parent
IsDirectory(name) == name \in {EmptyName, Dot, DotDot}

\* os.path.exists(os.path.join(folder, name))
PathExists(bucket, name) == name \in DOMAIN bucket \/ IsDirectory(name)

RemoveFile(bucket, name) == [n \in DOMAIN bucket \ {name} |-> bucket[n]]

\* filename.lower().endswith(('.png', '.jpg', '.jpeg'))
IsImageName(n) == Len(n.name) > 1 /\ Lower(n.name[Len(n.name)]) \in ALLOWED_EXTENSIONS

\* the entries of one bucket, newest first
RECURSIVE NewestFirst(_, _, _)
NewestFirst(bucket, names, route) ==
    IF names = {} THEN <<>>
    ELSE LET n == CHOOSE m \in names : \A k \in names : bucket[k] <= bucket[m]
         IN  <<[filename |-> n, url |-> <<route, n>>, timestamp |-> bucket[n]]>>
             \o NewestFirst(bucket, names \ {n}, route)

Listing(bucket, route) ==
    NewestFirst(bucket, {n \in DOMAIN bucket : IsImageName(n)}, route)

\* the loop of delete_images from the i-th file name on; faulty are the
\* files os.remove cannot remove
RECURSIVE DeleteLoop(_, _, _, _, _, _, _)
DeleteLoop(bucket, folder, filenames, i, deleted_count, errors, faulty) ==
    IF i > Len(filenames)
    THEN [bucket |-> bucket, deleted_count |-> deleted_count, errors |-> errors]
    ELSE LET filename == basename(filenames[i])
         IN  IF ~PathExists(bucket, filename)
             THEN DeleteLoop(bucket, folder, filenames, i + 1, deleted_count,
                             errors, faulty)
             ELSE IF IsDirectory(filename)
             THEN DeleteLoop(bucket, folder, filenames, i + 1, deleted_count,
                             Append(errors,
                                    [filename |-> filename,
                                     e |-> Exc("IsADirectoryError",
                                               <<folder, filename>>)]),
                             faulty)
             ELSE IF filename \in faulty
             THEN DeleteLoop(bucket, folder, filenames, i + 1, deleted_count,
                             Append(errors,
                                    [filename |-> filename,
                                     e |-> Exc("PermissionError",
                                               <<folder, filename>>)]),
                             faulty)
             ELSE DeleteLoop(RemoveFile(bucket, filename), folder, filenames,
                             i + 1, deleted_count + 1, errors, faulty)

\* the loop of bulk_download: the entries written to the archive.  Writing
\* a directory adds an entry for the directory.
RECURSIVE ZipLoop(_, _, _)
ZipLoop(bucket, filenames, i) ==
    IF i > Len(filenames) THEN <<>>
    ELSE LET filename == basename(filenames[i])
         IN  (IF PathExists(bucket, filename)
              THEN <<[name |-> filename, dir |-> IsDirectory(filename)]>>
              ELSE <<>>)
             \o ZipLoop(bucket, filenames, i + 1)

\* the call op of client c, sent with data, is answered
Answer(c, op, data, status, body) ==
    /\ ncalls < MaxCalls
    /\ ncalls' = ncalls + 1
    /\ last' = [op |-> op, client |-> c, data |-> data, status |-> status,
                body |-> body]

InitAdmin ==
    /\ FitIdle
    /\ rembg_session = NoHandle
    /\ created = 0
    /\ uploads \in BucketsOf(UploadNames)
    /\ outputs \in BucketsOf(OutputNames)
    \* a request writes its output after its upload
    /\ \A n \in DOMAIN outputs : \E m \in DOMAIN uploads : m.id = n.id
    /\ frames = {}
    /\ req = <<>>
    /\ nreq = 0
    /\ session = [c \in Clients |-> {}]
    /\ last = NoCall
    /\ ncalls = 0

AdminFrame == UNCHANGED <<rembg_session, created, frames, req, nreq>>
              /\ UNCHANGED fitVars

\* POST /api/admin/login
admin_login(c, data) ==
    /\ IF data.email = "admin@clearmen.xri" /\ data.password = "ADMINclear"
       THEN /\ session' = [session EXCEPT ![c] = @ \cup {"admin_logged_in"}]
            /\ Answer(c, "login", data, 200, [kind |-> "login", success |-> TRUE])
       ELSE /\ session' = session
            /\ Answer(c, "login", data, 401, [kind |-> "login", success |-> FALSE])
    /\ UNCHANGED <<uploads, outputs>>
    /\ AdminFrame

\* POST /api/admin/logout
admin_logout(c) ==
    /\ session' = [session EXCEPT ![c] = @ \ {"admin_logged_in"}]
    /\ Answer(c, "logout", NoData, 200, [kind |-> "logout", success |-> TRUE])
    /\ UNCHANGED <<uploads, outputs>>
    /\ AdminFrame

\* GET /api/admin/images
list_images(c) ==
    /\ IF ~Authorized(session[c])
       THEN Answer(c, "list", NoData, 401, ErrorBody("Unauthorized"))
       ELSE Answer(c, "list", NoData, 200,
                   [kind |-> "list",
                    outputs |-> Listing(outputs, "download"),
                    uploads |-> Listing(uploads, "view-upload")])
    /\ UNCHANGED <<uploads, outputs, session>>
    /\ AdminFrame

\* the bodies with which the bulk handlers called by client c go on: a
\* call that is refused returns before request.json is read
BodiesRead(c) == IF Authorized(session[c]) THEN Bodies ELSE {NoData}

\* what os.remove may fail on during a call that gets as far as the loop
FaultsMet(c) == IF Authorized(session[c]) THEN FaultySets ELSE {{}}

\* POST /api/admin/delete-images
delete_images(c, data, faulty) ==
    /\ data \in BodiesRead(c)
    /\ faulty \in FaultsMet(c)
    /\ IF ~Authorized(session[c])
       THEN /\ Answer(c, "delete", NoData, 401, ErrorBody("Unauthorized"))
            /\ UNCHANGED <<uploads, outputs>>
       ELSE IF data.filenames = <<>> \/ data.category \notin {"outputs", "uploads"}
       THEN /\ Answer(c, "delete", data, 400, ErrorBody("Invalid request"))
            /\ UNCHANGED <<uploads, outputs>>
       ELSE LET category == data.category
                folder == IF category = "outputs" THEN outputs ELSE uploads
                res == DeleteLoop(folder, category, data.filenames, 1, 0, <<>>,
                                  faulty)
            IN  /\ Answer(c, "delete", data, 200,
                          [kind |-> "delete", success |-> TRUE,
                           deleted_count |-> res.deleted_count,
                           errors |-> res.errors])
                /\ IF category = "outputs"
                   THEN outputs' = res.bucket /\ uploads' = uploads
                   ELSE uploads' = res.bucket /\ outputs' = outputs
    /\ session' = session
    /\ AdminFrame

\* POST /api/admin/bulk-download
bulk_download(c, data) ==
    /\ data \in BodiesRead(c)
    /\ IF ~Authorized(session[c])
       THEN Answer(c, "download", NoData, 401, ErrorBody("Unauthorized"))
       ELSE IF data.filenames = <<>> \/ data.category \notin {"outputs", "uploads"}
       THEN Answer(c, "download", data, 400, ErrorBody("Invalid request"))
       ELSE LET folder == IF data.category = "outputs" THEN outputs ELSE uploads
            IN  Answer(c, "download", data, 200,
                       [kind |-> "archive",
                        entries |-> ZipLoop(folder, data.filenames, 1)])
    /\ UNCHANGED <<uploads, outputs, session>>
    /\ AdminFrame

NextAdmin ==
    \E c \in Clients :
        \/ \E data \in Credentials : admin_login(c, data)
        \/ admin_logout(c)
        \/ list_images(c)
        \/ \E data \in Bodies \cup {NoData}, faulty \in FaultySets :
               delete_images(c, data, faulty)
        \/ \E data \in Bodies \cup {NoData} : bulk_download(c, data)

SpecAdmin == InitAdmin /\ [][NextAdmin]_vars

(***************************************************************************)
(* Properties of the compositor (SpecFit).                                 *)
(***************************************************************************)

\* C4: for every cutout with positive width and height and every frame,
\* fit_person_to_frame completes without error and returns an image of
\* exactly 1024x1536, new_width being in 1..1024 and new_height in 1..1536.
C4_AlwaysCanonical ==
    fit.run =>
        /\ fit.ok
        /\ fit.size = <<1024, 1536>>
        /\ fit.new_width >= 1 /\ fit.new_width <= 1024
        /\ fit.new_height >= 1 /\ fit.new_height <= 1536

\* C5: the rectangle at which the resized subject is placed is
\* bottom-aligned and horizontally centred: y_offset + new_height is the
\* frame height 1536, x_offset is not negative, and the left and the right
\* margin differ by at most one pixel.
C5_Placement ==
    (fit.run /\ fit.ok) =>
        LET left == fit.x_offset
            right == 1024 - fit.x_offset - fit.new_width
        IN  /\ fit.y_offset + fit.new_height = 1536
            /\ left >= 0
            /\ left - right <= 1 /\ right - left <= 1

\* a subject is placed whose margins cannot be equal, in a frame that had
\* to be resampled
C5_Witness ==
    /\ fit.run /\ fit.ok
    /\ frame.size # <<1024, 1536>>
    /\ person.bbox # NoBBox
    /\ fit.x_offset # 1024 - fit.x_offset - fit.new_width
    /\ fit.new_height < 1536

(***************************************************************************)
(* Properties of the /process pipeline (SpecProcess).                      *)
(***************************************************************************)

\* C1: however the requests calling get_session interleave, new_session
\* returns a handle at most once and every caller ends up with that same
\* handle.
C1_SingleHandle ==
    /\ created <= 1
    /\ \A v, w \in Requests :
           (req[v].handle # NoHandle /\ req[w].handle # NoHandle)
               => req[v].handle = req[w].handle

NoDuplicates(q) == \A i, j \in 1..Len(q) : q[i] = q[j] => i = j

FrameResolved(r) == \E i \in 1..Len(r.ran) : r.ran[i] = "frame"

C8_WriteOnce ==
    [][/\ \A n \in DOMAIN uploads :
              n \in DOMAIN uploads' /\ uploads'[n] = uploads[n]
       /\ \A n \in DOMAIN outputs :
              n \in DOMAIN outputs' /\ outputs'[n] = outputs[n]]_vars

\* C10: the body of a 500 response does not depend on the cause of the
\* failure: any two requests that end with 500 get the same body.
C10_GenericError ==
    \A v, w \in Requests :
        (req[v].status = 500 /\ req[w].status = 500)
            => req[v].body = req[w].body

(***************************************************************************)
(* Properties of the admin surface (SpecAdmin).                            *)
(***************************************************************************)

\* the bucket a bulk call is about, before and after the step
BucketOf(data) == IF data.category = "outputs" THEN outputs ELSE uploads
BucketOfNext(data) == IF data.category = "outputs" THEN outputs' ELSE uploads'

Basenames(filenames) == {basename(filenames[i]) : i \in 1..Len(filenames)}

SeqRange(q) == {q[i] : i \in 1..Len(q)}

\* C6: a delete repeated with the same list leaves the bucket as it is and
\* reports deleted_count 0 and no errors; a file name that is not in the
\* bucket adds nothing to deleted_count and nothing to errors.
C6_Idempotent ==
    [][(ncalls' = ncalls + 1 /\ last'.op = "delete" /\ last'.status = 200) =>
          /\ (last.op = "delete" /\ last.status = 200 /\ last.data = last'.data)
                 => /\ BucketOfNext(last'.data) = BucketOf(last'.data)
                    /\ last'.body.deleted_count = 0
                    /\ last'.body.errors = <<>>
          /\ last'.body.deleted_count
                 <= Cardinality(Basenames(last'.data.filenames)
                                \cap DOMAIN BucketOf(last'.data))
          /\ \A e \in SeqRange(last'.body.errors) :
                 e.filename \in DOMAIN BucketOf(last'.data)]_vars

\* C7: a list, delete or export call of a client whose session is not
\* logged in is answered 401 and changes no bucket; a file leaves a bucket
\* only in a delete call of a client whose session is logged in; a session
\* becomes logged in only by a login with the right credentials.
C7_AdminOnly ==
    [][ncalls' = ncalls + 1 =>
          LET c == last'.client
          IN  /\ (/\ last'.op \in {"list", "delete", "download"}
                  /\ "admin_logged_in" \notin session[c])
                     => /\ last'.status = 401
                        /\ uploads' = uploads
                        /\ outputs' = outputs
              /\ (\/ \E n \in DOMAIN uploads : n \notin DOMAIN uploads'
                  \/ \E n \in DOMAIN outputs : n \notin DOMAIN outputs')
                     => /\ last'.op = "delete"
                        /\ "admin_logged_in" \in session[c]
              /\ \A d \in Clients :
                     (/\ "admin_logged_in" \notin session[d]
                      /\ "admin_logged_in" \in session'[d])
                         => /\ d = c
                            /\ last'.op = "login"
                            /\ last'.data.email = "admin@clearmen.xri"
                            /\ last'.data.password = "ADMINclear"]_vars

\* a delete is refused to a client that is not logged in, while another
\* client is and both buckets hold files
C7_Witness ==
    /\ last.op = "delete"
    /\ last.status = 401
    /\ \E d \in Clients : d # last.client /\ "admin_logged_in" \in session[d]
    /\ "admin_logged_in" \notin session[last.client]
    /\ DOMAIN uploads # {} /\ DOMAIN outputs # {}

\* C9: the archive of a bulk download has an entry for exactly the
\* requested names, reduced to their basename, that are in the bucket, and
\* the bucket is left as it is.
C9_ExactArchive ==
    [][(ncalls' = ncalls + 1 /\ last'.op = "download" /\ last'.status = 200) =>
          /\ {e.name : e \in SeqRange(last'.body.entries)}
                 = Basenames(last'.data.filenames) \cap DOMAIN BucketOf(last'.data)
          /\ uploads' = uploads
          /\ outputs' = outputs]_vars

====
